---- MODULE Spec2Model ----
(***************************************************************************)
(* Model of the incremental scraper of fixed.scr.py: the two SQLite tables *)
(* (seen_cards, last_scraped), their access functions, and the coroutine   *)
(* scrape_new_messages, stepped at its await points.                       *)
(***************************************************************************)
EXTENDS Integers, Sequences, FiniteSets, TLC

\* ------------------------------------------------------------------ bounds
\* number of scrape_new_messages invocations in one behaviour
MaxScans == 2
\* largest limit a caller passes
MaxLimit == 2
\* number of scans in one behaviour of the specification with fairness
MaxFairScans == 1
\* largest reading of the wall clock (store-level specification only)
MaxClock == 2
\* number of administrative resets in one behaviour
MaxResets == 1
\* number of scans in one behaviour of the specification with the admin commands
MaxAdminScans == 1

\* ------------------------------------------------------- program constants
\* limit*5 in the search_messages call
FetchMultiplier == 5
\* start_number[:6]
BinLen == 6
\* year[-2:]
YearLen == 2
\* len(extracted) == 4
FieldCount == 4
\* Python's None, for the integer-valued last_msg_id
NoneVal == -1

\* ------------------------------------------------------------ characters
Digits == {"0", "1", "2", "3", "4", "5", "6", "7", "8", "9"}

DigitVal(c) ==
  CASE c = "0" -> 0 [] c = "1" -> 1 [] c = "2" -> 2 [] c = "3" -> 3
    [] c = "4" -> 4 [] c = "5" -> 5 [] c = "6" -> 6 [] c = "7" -> 7
    [] c = "8" -> 8 [] c = "9" -> 9

\* str.lower() on one character (the letters the modelled texts use)
LowerChar(c) ==
  CASE c = "V" -> "v" [] c = "I" -> "i" [] c = "S" -> "s" [] c = "A" -> "a"
    [] c = "M" -> "m" [] c = "C" -> "c"
    [] OTHER -> c

\* str.lower()
Lower(s) == [i \in 1..Len(s) |-> LowerChar(s[i])]

\* str.startswith(p)
StartsWith(s, p) == Len(p) <= Len(s) /\ SubSeq(s, 1, Len(p)) = p

\* p in s (substring)
Contains(s, p) ==
  \E i \in 0..(Len(s) - Len(p)) : SubSeq(s, i + 1, i + Len(p)) = p

\* s[:n]
Prefix(s, n) == SubSeq(s, 1, IF n < Len(s) THEN n ELSE Len(s))

\* s[-n:]
Suffix(s, n) == SubSeq(s, (IF Len(s) > n THEN Len(s) - n ELSE 0) + 1, Len(s))

\* re.findall(r'\d+', matched): the maximal digit runs of matched, in order
RECURSIVE DigitRunsFrom(_, _, _, _)
DigitRunsFrom(s, i, cur, acc) ==
  IF i > Len(s)
    THEN (IF cur = <<>> THEN acc ELSE Append(acc, cur))
    ELSE IF s[i] \in Digits
      THEN DigitRunsFrom(s, i + 1, Append(cur, s[i]), acc)
      ELSE DigitRunsFrom(s, i + 1, <<>>,
                         IF cur = <<>> THEN acc ELSE Append(acc, cur))

DigitRuns(s) == DigitRunsFrom(s, 1, <<>>, <<>>)

\* card_number.encode(): the ASCII bytes of a digit string
Encode(s) == [i \in 1..Len(s) |-> 48 + DigitVal(s[i])]

\* sha256(...).hexdigest(), as a 20-bit digest folded over the bytes
RECURSIVE DigestFrom(_, _, _)
DigestFrom(bytes, i, h) ==
  IF i > Len(bytes) THEN h
  ELSE DigestFrom(bytes, i + 1, (h * 31 + bytes[i]) % 1048576)

Sha256(card_number) == DigestFrom(Encode(card_number), 1, 7)

\* f"{card_number}|{mo}|{year}|{cvv}"
Format(card_number, mo, year, cvv) ==
  card_number \o <<"|">> \o mo \o <<"|">> \o year \o <<"|">> \o cvv

\* the primary identifier of a formatted record: the text before the first "|"
RECURSIVE FirstField(_, _)
FirstField(rec, i) ==
  IF i > Len(rec) \/ rec[i] = "|" THEN SubSeq(rec, 1, i - 1)
  ELSE FirstField(rec, i + 1)

PrimaryId(rec) == FirstField(rec, 1)

\* ------------------------------------------------------------ the pattern
\* pattern = r'\d{16}\D*\d{2}\D*\d{2,4}\D*\d{3,4}'
IsDigitAt(s, i) == i >= 1 /\ i <= Len(s) /\ s[i] \in Digits

\* n digits at positions i .. i+n-1
DigitsAt(s, i, n) == \A k \in i..(i + n - 1) : IsDigitAt(s, k)

\* \D* is greedy and is followed by \d: it takes the whole run of non-digits
RECURSIVE SkipNonDigits(_, _)
SkipNonDigits(s, i) ==
  IF i <= Len(s) /\ s[i] \notin Digits THEN SkipNonDigits(s, i + 1) ELSE i

\* \d{3,4} at i, greedy: the index after the match, 0 for no match
MatchCvv(s, i) ==
  IF DigitsAt(s, i, 4) THEN i + 4
  ELSE IF DigitsAt(s, i, 3) THEN i + 3
  ELSE 0

\* \d{2,4}\D*\d{3,4} at i, greedy with backtracking over 4, 3, 2 digits
MatchYearCvv(s, i) ==
  LET try(n) == IF DigitsAt(s, i, n)
                  THEN MatchCvv(s, SkipNonDigits(s, i + n))
                  ELSE 0
  IN  IF try(4) # 0 THEN try(4)
      ELSE IF try(3) # 0 THEN try(3)
      ELSE try(2)

\* the whole pattern at i: the index after the match, 0 for no match
MatchAt(s, i) ==
  IF ~DigitsAt(s, i, 16) THEN 0
  ELSE LET j == SkipNonDigits(s, i + 16)
       IN  IF ~DigitsAt(s, j, 2) THEN 0
           ELSE MatchYearCvv(s, SkipNonDigits(s, j + 2))

\* re.findall(pattern, text): the non-overlapping matches, left to right
RECURSIVE FindAllFrom(_, _, _)
FindAllFrom(s, i, acc) ==
  IF i > Len(s) THEN acc
  ELSE LET e == MatchAt(s, i)
       IN  IF e = 0 THEN FindAllFrom(s, i + 1, acc)
           ELSE FindAllFrom(s, e, Append(acc, SubSeq(s, i, e - 1)))

FindAll(text) == FindAllFrom(text, 1, <<>>)

\* ------------------------------------------------------- the environment
Rep(c, n) == [i \in 1..n |-> c]

\* 4111111111111111
CardA == <<"4">> \o Rep("1", 15)
\* 4111119999999999
CardB == <<"4">> \o Rep("1", 5) \o Rep("9", 10)
\* 5411111111111111
CardC == <<"5", "4">> \o Rep("1", 14)
\* 5500000000000004
CardD == <<"5", "5">> \o Rep("0", 13) \o <<"4">>

AllCards == {CardA, CardB, CardC, CardD}

\* what user.get_chat resolves: channel_username -> chat.id, chat.title
Usernames == {"@alpha", "@beta", "@ghost"}
KnownChats ==
  [u \in {"@alpha", "@beta"} |->
     IF u = "@alpha" THEN [id |-> 1, title |-> "Alpha"]
                     ELSE [id |-> 2, title |-> "Beta"]]
ChannelIds == {KnownChats[u].id : u \in DOMAIN KnownChats}
Titles == {KnownChats[u].title : u \in DOMAIN KnownChats}

Msg(id, text, caption) == [id |-> id, text |-> text, caption |-> caption]

\* the messages of each channel; <<>> is a missing text or caption
AlphaMessages ==
  { Msg(1, <<"V", "i", "s", "a", " ">> \o CardA
             \o <<" ", "1", "2", "/", "2", "5", " ", "1", "2", "3">>, <<>>),
    Msg(2, <<"M", "C", " ">> \o CardC
             \o <<"|", "0", "1", "|", "2", "0", "2", "6", "|", "4", "5", "6">>
             \o <<" ", "V", "I", "S", "A", " ">> \o CardB
             \o <<" ", "0", "2", "/", "2", "7", " ", "7", "8", "9", "0">>, <<>>),
    Msg(3, <<>>, <<>>) }

BetaMessages ==
  { Msg(1, <<>>, <<"v", "i", "s", "a", ":">> \o CardA
             \o <<"-", "1", "1", "-", "2", "4", "-", "9", "9", "9">>),
    Msg(2, <<>>, <<>>),
    Msg(3, CardB \o <<" ", "0", "2", "2", "7", " ", "7", "8", "9">>, <<>>),
    Msg(4, <<"V", "i", "s", "a">>, <<>>),
    Msg(5, <<>>, <<>>),
    Msg(6, <<"m", "c", " ">> \o CardD
             \o <<"/", "0", "3", "/", "2", "8", "/", "3", "2", "1">>, <<>>) }

Upstream(channel_id) == IF channel_id = 1 THEN AlphaMessages ELSE BetaMessages

MsgIds(channel_id) == {m.id : m \in Upstream(channel_id)}

\* the pure functions of the program on the texts of the environment, tabulated
AllMessages == AlphaMessages \cup BetaMessages
AllTexts == {m.text : m \in AllMessages} \cup {m.caption : m \in AllMessages}
MessageTable ==
  [c \in ChannelIds |->
     [id \in MsgIds(c) |-> CHOOSE m \in Upstream(c) : m.id = id]]
FindAllTable == [t \in AllTexts |-> FindAll(t)]
AllMatched == UNION {{FindAllTable[t][i] : i \in 1..Len(FindAllTable[t])} : t \in AllTexts}
DigitRunsTable == [m \in AllMatched |-> DigitRuns(m)]
LowerTable == [t \in AllTexts |-> Lower(t)]
Sha256Table == [c \in AllCards |-> Sha256(c)]

MessageOf(channel_id, id) == MessageTable[channel_id][id]

\* the ids of a channel, oldest first
RECURSIVE Ascending(_)
Ascending(ids) ==
  IF ids = {} THEN <<>>
  ELSE LET lo == CHOOSE x \in ids : \A y \in ids : x <= y
       IN  <<lo>> \o Ascending(ids \ {lo})

Reverse(seq) == [i \in 1..Len(seq) |-> seq[Len(seq) + 1 - i]]

\* seq read from the middle on, then from its start
FromMiddle(seq) ==
  LET k == Len(seq) \div 2
  IN  SubSeq(seq, k + 1, Len(seq)) \o SubSeq(seq, 1, k)

\* user.search_messages: every message once, in an order the source chooses
\* (oldest first, newest first, or neither)
DeliveryOrders(channel_id) ==
  LET asc == Ascending(MsgIds(channel_id))
  IN  {asc, Reverse(asc), FromMiddle(asc)}

OrderTable == [c \in ChannelIds |-> DeliveryOrders(c)]

\* the source may yield msg_id after having yielded seq
MayYield(channel_id, seq, msg_id) ==
  \E o \in OrderTable[channel_id] :
    /\ Len(seq) < Len(o)
    /\ SubSeq(o, 1, Len(seq)) = seq
    /\ o[Len(seq) + 1] = msg_id

Range(seq) == {seq[i] : i \in 1..Len(seq)}
FindAllOf(text) ==
  IF text \in DOMAIN FindAllTable THEN FindAllTable[text] ELSE FindAll(text)
DigitRunsOf(matched) ==
  IF matched \in DOMAIN DigitRunsTable THEN DigitRunsTable[matched]
  ELSE DigitRuns(matched)
LowerOf(text) ==
  IF text \in DOMAIN LowerTable THEN LowerTable[text] ELSE Lower(text)
Sha256Of(card_number) ==
  IF card_number \in DOMAIN Sha256Table THEN Sha256Table[card_number]
  ELSE Sha256(card_number)

\* the arguments a caller passes
Limits == 1..MaxLimit
\* start_number: a digit string, or <<>> for None
StartNumbers == { <<>>, <<"4", "1", "1", "1", "1", "1", "9", "9">> }
\* bank_name: a text, or <<>> for None
BankNames == { <<>>, <<"V", "I", "S", "A">> }

\* ------------------------------------------------------------------ state
Scans == {1, 2}

VARIABLES
  seen_cards,      \* table seen_cards: rows [card_hash, source, first_seen]
  last_scraped,    \* table last_scraped: rows [channel_id, last_msg_id, last_scrape]
  clock,           \* what datetime.utcnow() reads
  pc,              \* per scan: "idle", "resolve", "fetch", "done"
  args,            \* per scan: channel_username, limit, start_number, bank_name
  chat,            \* per scan: the resolved chat (id, title)
  last_msg_id,     \* per scan: the checkpoint loaded at line 112
  newest,          \* per scan: newest_msg_id_in_this_run
  messages_found,  \* per scan: the records collected
  count,           \* per scan: the number of records collected
  delivered,       \* per scan: ids of the messages search_messages has yielded, in order
  ret,             \* per scan: the returned triple
  how,             \* per scan: how the invocation ended
  io,              \* per scan: store accesses made (history)
  baseline,        \* per scan: the hashes stored when the scan was called (history)
  prev,            \* per scan: how the same call ended just before in this slot (history)
  emitted,         \* card number -> times appended to a result (history)
  started,         \* number of scans called so far (history)
  ever,            \* the rows every successful INSERT INTO seen_cards wrote (history)
  resets,          \* number of administrative resets so far (history)
  store_ret,       \* the last direct store operation and its outcome (history)
  stats_ret,       \* what stats_cmd last read, and after how many resets (history)
  filtered,        \* whether a scan called so far had a filter (history)
  cmd              \* per scan: the command adv_scr_cmd received (history)

storeVars == <<seen_cards, last_scraped, clock>>
scanVars  == <<pc, args, chat, last_msg_id, newest, messages_found, count,
               delivered, ret, how>>
histVars  == <<io, baseline, prev, emitted, started, ever, resets, store_ret,
               stats_ret, filtered, cmd>>
vars      == <<storeVars, scanVars, histVars>>

\* ------------------------------------------------------------ the tables
\* SELECT 1 FROM seen_cards WHERE card_hash = ?
HashExists(db, card_hash) == \E r \in db : r.card_hash = card_hash

\* is_card_seen changed: the lookup is scoped to the source
PerSourceSeen(db, card_number, source) ==
  LET card_hash == Sha256Of(card_number)
  IN  <<\E r \in db : r.card_hash = card_hash /\ r.source = source, card_hash>>

\* is_card_seen changed: the source is hashed together with the card number
SaltedSeen(db, card_number, source) ==
  LET card_hash == (Sha256Of(card_number) + (IF source = "Alpha" THEN 1 ELSE 2))
                     % 1048576
  IN  <<HashExists(db, card_hash), card_hash>>

\* is_card_seen: (exists, card_hash); the source argument is not used
is_card_seen(db, card_number, source) ==
  LET card_hash == Sha256Of(card_number)
  IN  <<HashExists(db, card_hash), card_hash>>

\* InsertSeen changed: INSERT OR REPLACE
InsertOrReplaceSeen(db, card_hash, source, now) ==
  [db |-> {r \in db : r.card_hash # card_hash}
            \cup {[card_hash |-> card_hash, source |-> source,
                   first_seen |-> now]},
   result |-> "ok"]

\* INSERT INTO seen_cards ..., card_hash being the PRIMARY KEY
InsertSeen(db, card_hash, source, now) ==
  IF HashExists(db, card_hash)
    THEN [db |-> db, result |-> "IntegrityError"]
    ELSE [db |-> db \cup {[card_hash |-> card_hash, source |-> source,
                           first_seen |-> now]},
          result |-> "ok"]

\* mark_card_seen: the IntegrityError is swallowed
mark_card_seen(db, card_hash, source, now) ==
  InsertSeen(db, card_hash, source, now).db

\* get_last_msg_id
get_last_msg_id(tbl, channel_id) ==
  IF \E r \in tbl : r.channel_id = channel_id
    THEN (CHOOSE r \in tbl : r.channel_id = channel_id).last_msg_id
    ELSE NoneVal

\* update_last_msg_id: INSERT OR REPLACE on the PRIMARY KEY channel_id
update_last_msg_id(tbl, channel_id, msg_id, now) ==
  {r \in tbl : r.channel_id # channel_id}
    \cup {[channel_id |-> channel_id, last_msg_id |-> msg_id,
           last_scrape |-> now]}

\* Python truthiness of an Optional[int]
Truthy(x) == x # NoneVal /\ x # 0

\* ------------------------------------------------- the body of the loop
\* line 116 changed: the run starts from no position
InitialNewestNone(loaded) == NoneVal

\* line 116
InitialNewest(loaded) == loaded

\* lines 125-126 changed: the last message processed, not the newest
LastProcessed(cur, msg_id) == msg_id

\* lines 125-126 changed: the lowest position seen is kept
LowestSeen(cur, msg_id) ==
  IF cur = NoneVal \/ msg_id < cur THEN msg_id ELSE cur

\* lines 125-126 changed: the first position seen is kept
FirstSeen(cur, msg_id) ==
  IF cur = NoneVal THEN msg_id ELSE cur

\* lines 125-126
NewestAfter(cur, msg_id) ==
  IF cur = NoneVal \/ msg_id > cur THEN msg_id ELSE cur

\* line 129 changed: only messages below the loaded position are skipped
ScrapedBefore(loaded, msg_id) == Truthy(loaded) /\ msg_id < loaded

\* line 129
AlreadyScraped(loaded, msg_id) == Truthy(loaded) /\ msg_id <= loaded

\* line 132
TextOf(message) == IF message.text # <<>> THEN message.text ELSE message.caption

\* line 137 changed: no message is left out for its text
BankNameIgnored(bank_name, text) == FALSE

\* line 137
BankMismatch(bank_name, text) ==
  bank_name # <<>> /\ ~Contains(LowerOf(text), Lower(bank_name))

\* line 149 changed: the prefix is looked for anywhere in the card number
BinNotContained(start_number, card_number) ==
  start_number # <<>> /\ ~Contains(card_number, Prefix(start_number, BinLen))

\* line 149
BinMismatch(start_number, card_number) ==
  start_number # <<>> /\ ~StartsWith(card_number, Prefix(start_number, BinLen))

\* lines 143-161 for one matched string, on the loop state
\* st = [db, found, count, emitted] and the history checked, inserted, rejected
HandleMatch(st, matched, title, start_number, now) ==
  LET extracted == DigitRunsOf(matched)
  IN  IF Len(extracted) # FieldCount THEN st
      ELSE
        LET card_number == extracted[1]
            mo          == extracted[2]
            year        == Suffix(extracted[3], YearLen)
            cvv         == extracted[4]
            seen        == is_card_seen(st.db, card_number, title)
        IN  IF BinMismatch(start_number, card_number) THEN st
            ELSE IF ~seen[1]
              THEN
                LET ins == InsertSeen(st.db, seen[2], title, now)
                IN  [db       |-> mark_card_seen(st.db, seen[2], title, now),
                     found    |-> Append(st.found, Format(card_number, mo, year, cvv)),
                     count    |-> st.count + 1,
                     checked  |-> st.checked \cup {card_number},
                     inserted |-> IF ins.result = "ok"
                                    THEN st.inserted \cup {seen[2]}
                                    ELSE st.inserted,
                     rejected |-> IF ins.result = "ok"
                                    THEN st.rejected
                                    ELSE st.rejected \cup {card_number},
                     emitted  |-> IF card_number \in DOMAIN st.emitted
                                    THEN [st.emitted EXCEPT ![card_number] = @ + 1]
                                    ELSE st.emitted @@ (card_number :> 1)]
              ELSE [st EXCEPT !.checked = @ \cup {card_number}]

\* lines 142-161: the for loop over matched_strings
RECURSIVE HandleMatches(_, _, _, _, _, _)
HandleMatches(st, matched_strings, i, title, start_number, now) ==
  IF i > Len(matched_strings) THEN st
  ELSE HandleMatches(HandleMatch(st, matched_strings[i], title, start_number, now),
                     matched_strings, i + 1, title, start_number, now)

\* lines 128-141: the message gets as far as re.findall(pattern, text)
ReachesExtraction(message, loaded, bank_name) ==
  /\ ~AlreadyScraped(loaded, message.id)
  /\ TextOf(message) # <<>>
  /\ ~BankMismatch(bank_name, TextOf(message))

\* lines 128-161 for one message
HandleMessage(st, message, loaded, title, start_number, bank_name, now) ==
  IF AlreadyScraped(loaded, message.id) THEN st
  ELSE IF TextOf(message) = <<>> THEN st
  ELSE IF BankMismatch(bank_name, TextOf(message)) THEN st
  ELSE HandleMatches(st, FindAllOf(TextOf(message)), 1, title, start_number, now)

\* line 120 changed: the multiplier is applied twice
FetchCapSquared(limit) == limit * FetchMultiplier * FetchMultiplier

\* line 120: limit*5
FetchCap(limit) == limit * FetchMultiplier

\* line 121
LimitReached(cnt, limit) == cnt >= limit

\* line 167 changed: the position is written whenever there is one
AlwaysUpdate(newest_id, loaded) == Truthy(newest_id)

\* line 167
ShouldUpdate(newest_id, loaded) == Truthy(newest_id) /\ newest_id # loaded

\* line 172: newest_msg_id_in_this_run or last_msg_id
ReturnedPosition(newest_id, loaded) ==
  IF Truthy(newest_id) THEN newest_id ELSE loaded

\* ---------------------------------------------------------------- actions
NoChat == [id |-> 0, title |-> ""]
NoArgs == [channel_username |-> "", limit |-> 0, start_number |-> <<>>,
           bank_name |-> <<>>]
NoIo   == [cp_reads |-> 0, cp_writes |-> 0, checked |-> {}, inserted |-> {},
           rejected |-> {}, consumed |-> {}, extracted |-> {}, contrib |-> {},
           stored_from |-> {}]

NoStoreOp == [op |-> "none", card_hash |-> 0, present |-> FALSE, result |-> ""]

NoStats == [total_cards |-> 0, total_sources |-> 0, resets |-> NoneVal]

NoCmd == [argv |-> <<>>, user_id |-> NoneVal]

Init ==
  /\ seen_cards = {}
  /\ last_scraped = {}
  /\ clock = 0
  /\ pc = [s \in Scans |-> "idle"]
  /\ args = [s \in Scans |-> NoArgs]
  /\ chat = [s \in Scans |-> NoChat]
  /\ last_msg_id = [s \in Scans |-> NoneVal]
  /\ newest = [s \in Scans |-> NoneVal]
  /\ messages_found = [s \in Scans |-> <<>>]
  /\ count = [s \in Scans |-> 0]
  /\ delivered = [s \in Scans |-> <<>>]
  /\ ret = [s \in Scans |-> <<<<>>, "", 0>>]
  /\ how = [s \in Scans |-> ""]
  /\ io = [s \in Scans |-> NoIo]
  /\ baseline = [s \in Scans |-> {}]
  /\ prev = [s \in Scans |-> ""]
  /\ emitted = <<>>
  /\ started = 0
  /\ ever = {}
  /\ resets = 0
  /\ store_ret = NoStoreOp
  /\ stats_ret = NoStats
  /\ filtered = FALSE
  /\ cmd = [s \in Scans |-> NoCmd]

\* how the call that just ended in this slot counts for a repeated call
EndedAs(s) ==
  IF how[s] = "exhausted" /\ Range(delivered[s]) = MsgIds(chat[s].id)
    THEN "all" ELSE how[s]

\* scrape_new_messages is called (lines 97-102), up to the await of get_chat
Start(s, u, lim, sn, bn) ==
  LET a == [channel_username |-> u, limit |-> lim, start_number |-> sn,
            bank_name |-> bn]
  IN  /\ pc[s] \in {"idle", "done"}
      /\ started < MaxScans
      /\ pc' = [pc EXCEPT ![s] = "resolve"]
      /\ args' = [args EXCEPT ![s] = a]
      /\ chat' = [chat EXCEPT ![s] = NoChat]
      /\ last_msg_id' = [last_msg_id EXCEPT ![s] = NoneVal]
      /\ newest' = [newest EXCEPT ![s] = NoneVal]
      /\ messages_found' = [messages_found EXCEPT ![s] = <<>>]
      /\ count' = [count EXCEPT ![s] = 0]
      /\ delivered' = [delivered EXCEPT ![s] = <<>>]
      /\ ret' = [ret EXCEPT ![s] = <<<<>>, "", 0>>]
      /\ how' = [how EXCEPT ![s] = ""]
      /\ io' = [io EXCEPT ![s] = NoIo]
      /\ baseline' = [baseline EXCEPT ![s] = {r.card_hash : r \in seen_cards}]
      /\ prev' = [prev EXCEPT ![s] = IF a = args[s] THEN EndedAs(s) ELSE ""]
      /\ started' = started + 1
      /\ filtered' = (filtered \/ sn # <<>> \/ bn # <<>>)
      /\ UNCHANGED <<storeVars, emitted, ever, resets, store_ret, stats_ret>>

\* line 110: return [], "Invalid Channel", 0
InvalidChannel == <<<<>>, "Invalid Channel", 0>>

\* lines 108-110 changed: the failed lookup is recorded as position 0
ResolveFailRecorded(s) ==
  /\ pc[s] = "resolve"
  /\ pc' = [pc EXCEPT ![s] = "done"]
  /\ how' = [how EXCEPT ![s] = "invalid"]
  /\ ret' = [ret EXCEPT ![s] = InvalidChannel]
  /\ last_scraped' = update_last_msg_id(last_scraped, 0, 0, clock)
  /\ UNCHANGED <<seen_cards, clock, args, chat, last_msg_id, newest,
                 messages_found, count, delivered, histVars>>

\* get_chat raises (lines 108-110)
ResolveFail(s) ==
  /\ pc[s] = "resolve"
  /\ pc' = [pc EXCEPT ![s] = "done"]
  /\ how' = [how EXCEPT ![s] = "invalid"]
  /\ ret' = [ret EXCEPT ![s] = InvalidChannel]
  /\ UNCHANGED <<storeVars, args, chat, last_msg_id, newest, messages_found,
                 count, delivered, histVars>>

\* get_chat answers (lines 105-107), then lines 112-120 up to the first fetch
ResolveOk(s) ==
  /\ pc[s] = "resolve"
  /\ args[s].channel_username \in DOMAIN KnownChats
  /\ LET c == KnownChats[args[s].channel_username]
         loaded == get_last_msg_id(last_scraped, c.id)
     IN  /\ chat' = [chat EXCEPT ![s] = c]
         /\ last_msg_id' = [last_msg_id EXCEPT ![s] = loaded]
         /\ newest' = [newest EXCEPT ![s] = InitialNewest(loaded)]
  /\ io' = [io EXCEPT ![s].cp_reads = @ + 1]
  /\ pc' = [pc EXCEPT ![s] = "fetch"]
  /\ UNCHANGED <<storeVars, args, messages_found, count, delivered, ret, how,
                 baseline, prev, emitted, started, ever, resets, store_ret,
                 stats_ret, filtered, cmd>>

\* line 172: the returned triple
Returned(found, title, newest_id, loaded) ==
  <<found, title, ReturnedPosition(newest_id, loaded)>>

\* lines 166-172, run in the step that leaves the loop
Finalize(s, why, io_s) ==
  /\ IF ShouldUpdate(newest[s], last_msg_id[s])
       THEN /\ last_scraped' = update_last_msg_id(last_scraped, chat[s].id,
                                                  newest[s], clock)
            /\ io' = [io EXCEPT ![s] = [io_s EXCEPT !.cp_writes = @ + 1]]
       ELSE /\ last_scraped' = last_scraped
            /\ io' = [io EXCEPT ![s] = io_s]
  /\ ret' = [ret EXCEPT ![s] = Returned(messages_found[s], chat[s].title,
                                        newest[s], last_msg_id[s])]
  /\ how' = [how EXCEPT ![s] = why]
  /\ pc' = [pc EXCEPT ![s] = "done"]
  /\ UNCHANGED <<seen_cards, clock, args, chat, last_msg_id, newest,
                 messages_found, count, baseline, prev, emitted, started,
                 ever, resets, store_ret, stats_ret, filtered, cmd>>

\* search_messages yields the message msg_id: one pass of the loop body
\* (lines 121-161); the break of line 122 runs lines 166-172 in the same step
FetchMessage(s, msg_id) ==
  /\ pc[s] = "fetch"
  /\ MayYield(chat[s].id, delivered[s], msg_id)
  /\ Len(delivered[s]) < FetchCap(args[s].limit)
  /\ delivered' = [delivered EXCEPT ![s] = Append(@, msg_id)]
  /\ IF LimitReached(count[s], args[s].limit)
       THEN Finalize(s, "limit", io[s])
       ELSE
         \E st \in {HandleMessage(
                       [db |-> seen_cards, found |-> messages_found[s],
                        count |-> count[s], checked |-> io[s].checked,
                        inserted |-> io[s].inserted,
                        rejected |-> io[s].rejected, emitted |-> emitted],
                       MessageOf(chat[s].id, msg_id), last_msg_id[s],
                       chat[s].title, args[s].start_number,
                       args[s].bank_name, clock)} :
             /\ newest' = [newest EXCEPT ![s] = NewestAfter(@, msg_id)]
             /\ seen_cards' = st.db
             /\ messages_found' = [messages_found EXCEPT ![s] = st.found]
             /\ count' = [count EXCEPT ![s] = st.count]
             /\ emitted' = st.emitted
             /\ ever' = ever \cup (st.db \ seen_cards)
             /\ io' = [io EXCEPT
                  ![s].checked = st.checked,
                  ![s].inserted = st.inserted,
                  ![s].rejected = st.rejected,
                  ![s].consumed = @ \cup {msg_id},
                  ![s].extracted = @ \cup
                    (IF ReachesExtraction(MessageOf(chat[s].id, msg_id),
                                          last_msg_id[s], args[s].bank_name)
                       THEN {msg_id} ELSE {}),
                  ![s].contrib = @ \cup
                    {<<msg_id, PrimaryId(st.found[i])>> :
                       i \in (Len(messages_found[s]) + 1)..Len(st.found)},
                  ![s].stored_from = @ \cup
                    {<<msg_id, r.card_hash>> : r \in st.db \ seen_cards}]
             /\ UNCHANGED <<last_scraped, clock, pc, args, chat, last_msg_id,
                            ret, how, baseline, prev, started, resets,
                            store_ret, stats_ret, filtered, cmd>>

\* search_messages is exhausted: no message is left, or limit*5 were yielded
FetchEnd(s) ==
  /\ pc[s] = "fetch"
  /\ \/ MsgIds(chat[s].id) \subseteq Range(delivered[s])
     \/ Len(delivered[s]) >= FetchCap(args[s].limit)
  /\ Finalize(s, "exhausted", io[s])
  /\ UNCHANGED delivered

\* line 163 changed: the exception skips the checkpoint update
FetchFailSkipsUpdate(s) ==
  /\ pc[s] = "fetch"
  /\ Len(delivered[s]) < FetchCap(args[s].limit)
  /\ ret' = [ret EXCEPT ![s] = Returned(messages_found[s], chat[s].title,
                                        newest[s], last_msg_id[s])]
  /\ how' = [how EXCEPT ![s] = "error"]
  /\ pc' = [pc EXCEPT ![s] = "done"]
  /\ UNCHANGED <<storeVars, args, chat, last_msg_id, newest, messages_found,
                 count, delivered, histVars>>

\* search_messages raises while fetching (line 163)
FetchFail(s) ==
  /\ pc[s] = "fetch"
  /\ Len(delivered[s]) < FetchCap(args[s].limit)
  /\ Finalize(s, "error", io[s])
  /\ UNCHANGED delivered

\* mark_card_seen raises another error than IntegrityError (the database is
\* locked, the disk is full) for the k-th match of the message msg_id: the
\* matches before it are handled (lines 142-161), the record is appended
\* (line 156), the exception leaves the loops at line 163 before count += 1,
\* and lines 166-172 run
FetchStoreFail(s, msg_id, k) ==
  /\ pc[s] = "fetch"
  /\ MayYield(chat[s].id, delivered[s], msg_id)
  /\ Len(delivered[s]) < FetchCap(args[s].limit)
  /\ ~LimitReached(count[s], args[s].limit)
  /\ ReachesExtraction(MessageOf(chat[s].id, msg_id), last_msg_id[s],
                       args[s].bank_name)
  /\ \E matched_strings \in {FindAllOf(TextOf(MessageOf(chat[s].id, msg_id)))} :
       /\ k \in 1..Len(matched_strings)
       /\ \E st \in {HandleMatches(
                        [db |-> seen_cards, found |-> messages_found[s],
                         count |-> count[s], checked |-> io[s].checked,
                         inserted |-> io[s].inserted,
                         rejected |-> io[s].rejected, emitted |-> emitted],
                        SubSeq(matched_strings, 1, k - 1), 1, chat[s].title,
                        args[s].start_number, clock)},
              extracted \in {DigitRunsOf(matched_strings[k])},
              newest_id \in {NewestAfter(newest[s], msg_id)} :
            /\ Len(extracted) = FieldCount
            /\ ~BinMismatch(args[s].start_number, extracted[1])
            /\ ~is_card_seen(st.db, extracted[1], chat[s].title)[1]
            /\ \E found \in {Append(st.found,
                                     Format(extracted[1], extracted[2],
                                            Suffix(extracted[3], YearLen),
                                            extracted[4]))},
                   written \in {ShouldUpdate(newest_id, last_msg_id[s])} :
                 /\ delivered' = [delivered EXCEPT ![s] = Append(@, msg_id)]
                 /\ newest' = [newest EXCEPT ![s] = newest_id]
                 /\ seen_cards' = st.db
                 /\ ever' = ever \cup (st.db \ seen_cards)
                 /\ messages_found' = [messages_found EXCEPT ![s] = found]
                 /\ count' = [count EXCEPT ![s] = st.count]
                 /\ emitted' = IF extracted[1] \in DOMAIN st.emitted
                                 THEN [st.emitted EXCEPT ![extracted[1]] = @ + 1]
                                 ELSE st.emitted @@ (extracted[1] :> 1)
                 /\ last_scraped' =
                      IF written
                        THEN update_last_msg_id(last_scraped, chat[s].id,
                                                newest_id, clock)
                        ELSE last_scraped
                 /\ io' = [io EXCEPT
                      ![s].checked = st.checked \cup {extracted[1]},
                      ![s].inserted = st.inserted,
                      ![s].rejected = st.rejected,
                      ![s].consumed = @ \cup {msg_id},
                      ![s].extracted = @ \cup {msg_id},
                      ![s].contrib = @ \cup
                        {<<msg_id, PrimaryId(found[i])>> :
                           i \in (Len(messages_found[s]) + 1)..Len(found)},
                      ![s].stored_from = @ \cup
                        {<<msg_id, r.card_hash>> : r \in st.db \ seen_cards},
                      ![s].cp_writes = IF written THEN @ + 1 ELSE @]
                 /\ ret' = [ret EXCEPT ![s] =
                              Returned(found, chat[s].title, newest_id,
                                       last_msg_id[s])]
                 /\ how' = [how EXCEPT ![s] = "store_error"]
                 /\ pc' = [pc EXCEPT ![s] = "done"]
                 /\ UNCHANGED <<clock, args, chat, last_msg_id, baseline,
                                prev, started, resets, store_ret,
                                stats_ret, filtered, cmd>>

\* the arguments adv_scr_cmd passes: one filter at most (lines 245-251)
Call(s) ==
  \E u \in Usernames, lim \in Limits, sn \in StartNumbers, bn \in BankNames :
    /\ sn = <<>> \/ bn = <<>>
    /\ Start(s, u, lim, sn, bn)
    /\ UNCHANGED cmd

Step(s) ==
  \/ ResolveFail(s)
  \/ ResolveOk(s)
  \/ \E m \in MsgIds(chat[s].id) : FetchMessage(s, m)
  \/ FetchEnd(s)
  \/ FetchFail(s)

\* two concurrent callers, one scan each, interleaved at the await points
Next == \E s \in Scans : (pc[s] = "idle" /\ Call(s)) \/ Step(s)

Spec == Init /\ [][Next]_vars

\* one caller: each scan is called after the one before has returned
NextSeq == Call(1) \/ Step(1)

SpecSeq == Init /\ [][NextSeq]_vars

\* one caller, with a database whose INSERT can fail
NextFault ==
  \/ Call(1)
  \/ Step(1)
  \/ /\ pc[1] = "fetch"
     /\ \E m \in MsgIds(chat[1].id) :
          \E k \in 1..Len(FindAllOf(TextOf(MessageOf(chat[1].id, m)))) :
            FetchStoreFail(1, m, k)

SpecFault == Init /\ [][NextFault]_vars

\* the event loop resumes a scan whose await can complete
NextFair == (started < MaxFairScans /\ Call(1)) \/ Step(1)

SpecFair == Init /\ [][NextFair]_vars /\ WF_vars(Step(1))

\* ------------------------------------------------- the command handler
\* config.ADMIN_IDS, config.ADMIN_LIMIT, config.DEFAULT_LIMIT
ADMIN_IDS == {7}
ADMIN_LIMIT == MaxLimit
DEFAULT_LIMIT == 1

\* message.from_user.id, NoneVal for a message without from_user
UserIds == {7, NoneVal}

\* the value of a run of decimal digits
RECURSIVE DecimalFrom(_, _, _)
DecimalFrom(ds, i, acc) ==
  IF i > Len(ds) THEN acc
  ELSE DecimalFrom(ds, i + 1, acc * 10 + DigitVal(ds[i]))

\* int(token) changed: a token that is no number counts as 1
IntLenient(token) ==
  LET signed == token # <<>> /\ token[1] \in {"+", "-"}
      body   == IF signed THEN Tail(token) ELSE token
  IN  IF body # <<>> /\ \A i \in 1..Len(body) : body[i] \in Digits
        THEN [ok |-> TRUE,
              value |-> IF signed /\ token[1] = "-"
                          THEN 0 - DecimalFrom(body, 1, 0)
                          ELSE DecimalFrom(body, 1, 0)]
        ELSE [ok |-> TRUE, value |-> 1]

\* int(token) for a token without whitespace: an optional sign and decimal
\* digits give the value, anything else raises ValueError (ok = FALSE)
int(token) ==
  LET signed == token # <<>> /\ token[1] \in {"+", "-"}
      body   == IF signed THEN Tail(token) ELSE token
  IN  IF body # <<>> /\ \A i \in 1..Len(body) : body[i] \in Digits
        THEN [ok |-> TRUE,
              value |-> IF signed /\ token[1] = "-"
                          THEN 0 - DecimalFrom(body, 1, 0)
                          ELSE DecimalFrom(body, 1, 0)]
        ELSE [ok |-> FALSE, value |-> 0]

\* str.isdigit()
isdigit(token) == token # <<>> /\ \A i \in 1..Len(token) : token[i] \in Digits

\* " ".join(tokens[i:])
RECURSIVE JoinFrom(_, _)
JoinFrom(tokens, i) ==
  IF i > Len(tokens) THEN <<>>
  ELSE IF i = Len(tokens) THEN tokens[i]
  ELSE tokens[i] \o <<" ">> \o JoinFrom(tokens, i + 1)

\* line 237
MaxLim(user_id) == IF user_id \in ADMIN_IDS THEN ADMIN_LIMIT ELSE DEFAULT_LIMIT

\* the second word of a command: the limit as typed
LimitTokens ==
  { <<"1">>, <<"+", "2">>, <<"9">>, <<"1", ".", "5">>, <<"x">> }

\* the words after the limit: none, a number, or a bank name of two words
ExtraArgs ==
  { <<>>,
    << <<"4", "1", "1", "1", "1", "1", "9", "9">> >>,
    << <<"M", "C">>, <<"5", "4">> >> }

\* message.text.split()[1:]
Commands ==
  {<<u>> : u \in Usernames}
    \cup {<<u, t>> \o e : u \in Usernames, t \in LimitTokens, e \in ExtraArgs}

\* lines 229-230, 239-240, 242-243: a reply and return, no scan is called
Reject(s, why) ==
  /\ pc[s] \in {"idle", "done"}
  /\ started < MaxScans
  /\ pc' = [pc EXCEPT ![s] = "done"]
  /\ how' = [how EXCEPT ![s] = why]
  /\ args' = [args EXCEPT ![s] = NoArgs]
  /\ chat' = [chat EXCEPT ![s] = NoChat]
  /\ last_msg_id' = [last_msg_id EXCEPT ![s] = NoneVal]
  /\ newest' = [newest EXCEPT ![s] = NoneVal]
  /\ messages_found' = [messages_found EXCEPT ![s] = <<>>]
  /\ count' = [count EXCEPT ![s] = 0]
  /\ delivered' = [delivered EXCEPT ![s] = <<>>]
  /\ ret' = [ret EXCEPT ![s] = <<<<>>, "", 0>>]
  /\ io' = [io EXCEPT ![s] = NoIo]
  /\ baseline' = [baseline EXCEPT ![s] = {r.card_hash : r \in seen_cards}]
  /\ prev' = [prev EXCEPT ![s] = ""]
  /\ started' = started + 1
  /\ UNCHANGED <<storeVars, emitted, ever, resets, store_ret, stats_ret,
                 filtered>>

\* adv_scr_cmd (lines 226-254) up to the await of get_chat in the scan
adv_scr_cmd(s, argv, user_id) ==
  /\ pc[s] \in {"idle", "done"}
  /\ started < MaxScans
  /\ cmd' = [cmd EXCEPT ![s] = [argv |-> argv, user_id |-> user_id]]
  /\ IF Len(argv) < 2 THEN Reject(s, "usage")
     ELSE
       LET limit   == int(argv[2])
           max_lim == MaxLim(user_id)
       IN  IF ~limit.ok THEN Reject(s, "invalid_limit")
           ELSE IF limit.value > max_lim THEN Reject(s, "limit_exceeded")
           ELSE
             LET start_number == IF Len(argv) > 2 /\ isdigit(argv[3])
                                   THEN argv[3] ELSE <<>>
                 bank_name    == IF Len(argv) > 2 /\ ~isdigit(argv[3])
                                   THEN JoinFrom(argv, 3) ELSE <<>>
             IN  Start(s, argv[1], limit.value, start_number, bank_name)

\* one caller sending commands, each after the one before was answered
NextCmd ==
  \/ /\ pc[1] \in {"idle", "done"}
     /\ \E argv \in Commands, user_id \in UserIds :
          adv_scr_cmd(1, argv, user_id)
  \/ Step(1)

SpecCmd == Init /\ [][NextCmd]_vars

\* ------------------------------------------- the store, operated directly
\* the card numbers the direct operations are given
StoreCards == {CardA, CardB}

\* mark_card_seen(card_hash, source) on the table
StoreInsert(card_hash, source) ==
  /\ store_ret' = [op |-> "insert", card_hash |-> card_hash,
                   present |-> HashExists(seen_cards, card_hash),
                   result |-> InsertSeen(seen_cards, card_hash, source, clock).result]
  /\ seen_cards' = mark_card_seen(seen_cards, card_hash, source, clock)
  /\ ever' = ever \cup (seen_cards' \ seen_cards)
  /\ UNCHANGED <<last_scraped, clock, scanVars, io, baseline, prev, emitted,
                 started, resets, stats_ret, filtered, cmd>>

\* is_card_seen(card_number, source) on the table
StoreExists(card_number, source) ==
  /\ store_ret' = [op |-> "exists",
                   card_hash |-> is_card_seen(seen_cards, card_number, source)[2],
                   present |-> HashExists(seen_cards, Sha256Of(card_number)),
                   result |-> IF is_card_seen(seen_cards, card_number, source)[1]
                                THEN "True" ELSE "False"]
  /\ UNCHANGED <<storeVars, scanVars, io, baseline, prev, emitted, started,
                 ever, resets, stats_ret, filtered, cmd>>

\* clear_db_cmd changed: only seen_cards is deleted
ClearDbSeenOnly ==
  /\ resets < MaxResets
  /\ seen_cards' = {}
  /\ last_scraped' = last_scraped
  /\ resets' = resets + 1
  /\ UNCHANGED <<clock, scanVars, io, baseline, prev, emitted, started, ever,
                 store_ret, stats_ret, filtered, cmd>>

\* clear_db_cmd: DELETE FROM seen_cards, DELETE FROM last_scraped, commit
ClearDb ==
  /\ resets < MaxResets
  /\ seen_cards' = {}
  /\ last_scraped' = {}
  /\ resets' = resets + 1
  /\ UNCHANGED <<clock, scanVars, io, baseline, prev, emitted, started, ever,
                 store_ret, stats_ret, filtered, cmd>>

\* time passes: datetime.utcnow() reads later
Tick ==
  /\ clock < MaxClock
  /\ clock' = clock + 1
  /\ UNCHANGED <<seen_cards, last_scraped, scanVars, histVars>>

StoreNext ==
  \/ \E c \in StoreCards, t \in Titles : StoreInsert(Sha256Of(c), t)
  \/ \E c \in StoreCards, t \in Titles : StoreExists(c, t)
  \/ ClearDb
  \/ Tick

SpecStore == Init /\ [][StoreNext]_vars

\* stats_cmd: COUNT(*) and COUNT(DISTINCT source) of seen_cards
Stats ==
  /\ stats_ret' = [total_cards |-> Cardinality(seen_cards),
                   total_sources |-> Cardinality({r.source : r \in seen_cards}),
                   resets |-> resets]
  /\ UNCHANGED <<storeVars, scanVars, io, baseline, prev, emitted, started,
                 ever, resets, store_ret, filtered, cmd>>

\* the commands of the bot: scans of one caller, with stats_cmd and
\* clear_db_cmd handled while a scan waits at an await
NextAdmin ==
  \/ started < MaxAdminScans /\ Call(1)
  \/ Step(1)
  \/ ClearDb
  \/ Stats

SpecAdmin == Init /\ [][NextAdmin]_vars

\* ----------------------------------------------------------- properties
PrimaryIds(found) == [i \in 1..Len(found) |-> PrimaryId(found[i])]

\* how many records of found carry the primary identifier card_number
Occurrences(found, card_number) ==
  Cardinality({i \in 1..Len(found) : PrimaryId(found[i]) = card_number})

\* the position stored for a channel, NoneVal when none is
StoredPosition(channel_id) == get_last_msg_id(last_scraped, channel_id)

MaxOf(set) == CHOOSE x \in set : \A y \in set : y <= x

\* C1: with no reset, over sequential scans no primary identifier is appended
\* to a result more than once in all (neither twice in one result nor in two
\* results), whatever the source and the auxiliary fields it comes with.
C1_AtMostOnceEmission ==
  resets = 0 =>
    /\ \A c \in DOMAIN emitted : emitted[c] <= 1
    /\ \A s \in Scans : \A c \in Range(PrimaryIds(messages_found[s])) :
         /\ Occurrences(messages_found[s], c) = 1
         /\ Occurrences(ret[s][1], c) <= 1

\* a second scan, of Beta, has met card A (other month, year and code) after
\* it was emitted under Alpha, and has not emitted it
C1_Witness ==
  /\ resets = 0
  /\ started = 2
  /\ pc[1] = "done"
  /\ chat[1].title = "Beta"
  /\ CardA \in io[1].checked
  /\ Occurrences(ret[1][1], CardA) = 0
  /\ CardA \in DOMAIN emitted
  /\ emitted[CardA] = 1
  /\ \E r \in seen_cards : r.card_hash = Sha256Of(CardA) /\ r.source = "Alpha"

\* C2: when two concurrent scans both run the dedup check on a record that
\* was stored when neither was called, exactly one of them inserts its hash,
\* that one and only that one has the record in its result (once), and a scan
\* whose INSERT met the existing hash does not have it.
C2_ConcurrentAtMostOnce ==
  /\ \A c \in io[1].checked \cap io[2].checked :
       Sha256Of(c) \notin baseline[1] \cup baseline[2] =>
         \E s \in Scans :
           LET o == CHOOSE x \in Scans : x # s
           IN  /\ Sha256Of(c) \in io[s].inserted
               /\ Sha256Of(c) \notin io[o].inserted
               /\ Occurrences(messages_found[s], c) = 1
               /\ Occurrences(messages_found[o], c) = 0
  /\ \A s \in Scans : \A c \in io[s].rejected :
       Occurrences(messages_found[s], c) = 0

\* both scans are in their loops, both have checked card A, unseen when
\* either was called, and one of them holds it
C2_Witness ==
  /\ pc[1] = "fetch" /\ pc[2] = "fetch"
  /\ CardA \in io[1].checked \cap io[2].checked
  /\ Sha256Of(CardA) \notin baseline[1] \cup baseline[2]
  /\ chat[1].id # chat[2].id
  /\ Occurrences(messages_found[2], CardA) = 1
  /\ Occurrences(messages_found[1], CardA) = 0

\* C3: over sequential scans, with fetch failures, early stops and any
\* delivery order, no step lowers or removes the stored position of a channel.
C3_CheckpointMonotone ==
  [][resets' = resets =>
       \A ch \in ChannelIds :
         StoredPosition(ch) # NoneVal =>
           /\ get_last_msg_id(last_scraped', ch) # NoneVal
           /\ get_last_msg_id(last_scraped', ch) >= StoredPosition(ch)]_vars

\* a scan whose fetch failed after yielding only messages older than the
\* loaded position has ended, and the stored position is the loaded one
C3_Witness ==
  /\ pc[1] = "done"
  /\ how[1] = "error"
  /\ last_msg_id[1] # NoneVal
  /\ delivered[1] # <<>>
  /\ MaxOf(Range(delivered[1])) < last_msg_id[1]
  /\ StoredPosition(chat[1].id) = last_msg_id[1]

\* C4 as stated: a scan called again with the same arguments right after a
\* completed scan (one that stopped at the limit included) returns no record
\* and leaves the stored position of its channel as it loaded it.
C4_IdempotentAfterAnyCompleted ==
  \A s \in Scans :
    (pc[s] = "done" /\ prev[s] \in {"all", "exhausted", "limit"}) =>
      /\ ret[s][1] = <<>>
      /\ how[s] # "invalid" => StoredPosition(chat[s].id) = last_msg_id[s]

\* C4 amended: a scan called again with the same arguments right after a
\* scan that ended with every message of the channel yielded and processed
\* collects no record, returns none and leaves the stored position as loaded.
C4_IdempotentAfterFullScan ==
  \A s \in Scans :
    prev[s] = "all" =>
      /\ messages_found[s] = <<>>
      /\ pc[s] = "done" =>
           /\ ret[s][1] = <<>>
           /\ how[s] # "invalid" => StoredPosition(chat[s].id) = last_msg_id[s]

\* the repeated scan of Alpha has again been yielded every message, the one
\* with two records included, and returned nothing
C4_Witness ==
  /\ pc[1] = "done"
  /\ prev[1] = "all"
  /\ how[1] = "exhausted"
  /\ chat[1].id = 1
  /\ Range(delivered[1]) = MsgIds(1)
  /\ Cardinality(seen_cards) >= 2
  /\ ret[1][1] = <<>>
  /\ StoredPosition(1) = last_msg_id[1]

\* C5: the records collected by a scan never outnumber its limit.
C5_LimitBound ==
  \A s \in Scans :
    /\ Len(messages_found[s]) <= args[s].limit
    /\ Len(ret[s][1]) <= args[s].limit

\* C6: a scan whose source is not resolved ends at once with the failed
\* outcome and no record, having fetched nothing and neither read nor written
\* a checkpoint, and the step that ends it changes neither table.
C6_ResolveFailureNoEffect ==
  /\ [](\A s \in Scans :
          how[s] = "invalid" =>
            /\ pc[s] = "done"
            /\ ret[s][1] = <<>>
            /\ delivered[s] = <<>>
            /\ io[s] = NoIo)
  /\ [][\A s \in Scans :
          (pc[s] = "resolve" /\ how'[s] = "invalid") =>
            /\ seen_cards' = seen_cards
            /\ last_scraped' = last_scraped]_vars

\* a scan of an unresolved source has ended while both tables hold rows
C6_Witness ==
  /\ pc[1] = "done"
  /\ how[1] = "invalid"
  /\ ret[1] = InvalidChannel
  /\ seen_cards # {}
  /\ last_scraped # {}

\* C7: a scan ended by a fetch failure returns the records it had collected
\* (those whose hashes it inserted), and the stored position of its channel is
\* the highest position yielded before the failure when that exceeds the
\* loaded one (or none was loaded), and the loaded one otherwise.
C7_PartialProgress ==
  \A s \in Scans :
    how[s] = "error" =>
      /\ ret[s][1] = messages_found[s]
      /\ Range(PrimaryIds(ret[s][1]))
           = {c \in io[s].checked : Sha256Of(c) \in io[s].inserted}
      /\ IF delivered[s] # <<>>
              /\ (last_msg_id[s] = NoneVal
                    \/ MaxOf(Range(delivered[s])) > last_msg_id[s])
           THEN StoredPosition(chat[s].id) = MaxOf(Range(delivered[s]))
           ELSE StoredPosition(chat[s].id) = last_msg_id[s]

\* a fetch failed after yielding messages newer than the loaded position,
\* with records collected: they are returned and the position is advanced
C7_Witness ==
  /\ pc[1] = "done"
  /\ how[1] = "error"
  /\ last_msg_id[1] # NoneVal
  /\ delivered[1] # <<>>
  /\ Range(delivered[1]) # MsgIds(chat[1].id)
  /\ ret[1][1] # <<>>
  /\ StoredPosition(chat[1].id) = MaxOf(Range(delivered[1]))
  /\ StoredPosition(chat[1].id) > last_msg_id[1]

\* C8: with no Clear, every row a successful INSERT wrote is still in
\* seen_cards, with its source and first_seen, and Exists answers true for its
\* hash; no two rows share a hash; an INSERT of a hash already present meets
\* the key constraint (already-exists) and one of an absent hash succeeds; an
\* Exists answers what the table holds.
C8_DedupStoreUniqueness ==
  /\ resets = 0 =>
       /\ ever \subseteq seen_cards
       /\ \A r \in ever : HashExists(seen_cards, r.card_hash)
       /\ store_ret.op = "insert" => HashExists(seen_cards, store_ret.card_hash)
  /\ \A r1, r2 \in seen_cards : r1.card_hash = r2.card_hash => r1 = r2
  /\ store_ret.op = "insert" =>
       store_ret.result = (IF store_ret.present THEN "IntegrityError" ELSE "ok")
  /\ store_ret.op = "exists" =>
       store_ret.result = (IF store_ret.present THEN "True" ELSE "False")

\* card A, first inserted under Alpha at time 0, has been inserted again under
\* Beta at a later time: the insert met the existing hash, the row is the first
C8_Witness ==
  /\ resets = 0
  /\ clock > 0
  /\ store_ret = [op |-> "insert", card_hash |-> Sha256Of(CardA),
                  present |-> TRUE, result |-> "IntegrityError"]
  /\ [card_hash |-> Sha256Of(CardA), source |-> "Alpha", first_seen |-> 0]
       \in seen_cards
  /\ Cardinality(seen_cards) = 1

\* C9: in a scan called with a prefix filter, every record collected or
\* returned has a primary identifier that starts with the first 6 characters
\* of the filter.
C9_PrefixFilter ==
  \A s \in Scans :
    args[s].start_number # <<>> =>
      \A c \in Range(PrimaryIds(messages_found[s]))
                 \cup Range(PrimaryIds(ret[s][1])) :
        StartsWith(c, Prefix(args[s].start_number, BinLen))

\* a filtered scan has processed the message of Alpha that holds card C (not
\* matching) and card B (matching): B is returned, C is not and is not stored
C9_Witness ==
  /\ pc[1] = "done"
  /\ args[1].start_number # <<>>
  /\ Len(args[1].start_number) > BinLen
  /\ chat[1].id = 1
  /\ 2 \in Range(delivered[1])
  /\ Occurrences(ret[1][1], CardB) = 1
  /\ Occurrences(ret[1][1], CardC) = 0
  /\ ~HashExists(seen_cards, Sha256Of(CardC))

\* C10: a scan is never yielded more than 5 times its limit messages, and
\* every scan that was called reaches its end (completed or failed).
C10_BoundedFetchTermination ==
  /\ [](\A s \in Scans :
          Len(delivered[s]) <= FetchMultiplier * args[s].limit)
  /\ (pc[1] \in {"resolve", "fetch"})
       ~> (pc[1] = "done" /\ how[1] \in {"exhausted", "limit", "error", "invalid"})

\* a scan with limit 1 ended after 5 messages, none of which gave a record,
\* with a message of the channel left unfetched
C10_Witness ==
  /\ pc[1] = "done"
  /\ how[1] = "exhausted"
  /\ args[1].limit = 1
  /\ Len(delivered[1]) = FetchMultiplier
  /\ Range(delivered[1]) # MsgIds(chat[1].id)
  /\ messages_found[1] = <<>>

\* the channels last_scraped has a row for
StoredChannels(tbl) == {r.channel_id : r \in tbl}

\* C11: a step deletes rows of seen_cards or of last_scraped only as a reset,
\* and the state a reset leaves (the first any other handler or scan can
\* see) has both tables empty: get_last_msg_id answers None for every
\* channel, and a stats_cmd run after the reset while seen_cards is still
\* empty reports zero cards and zero sources.
C11_AtomicReset ==
  /\ [][resets' # resets =>
         /\ seen_cards' = {}
         /\ last_scraped' = {}
         /\ \A ch \in ChannelIds :
              get_last_msg_id(last_scraped', ch) = NoneVal]_vars
  /\ [][(~(seen_cards \subseteq seen_cards')
           \/ ~(StoredChannels(last_scraped) \subseteq StoredChannels(last_scraped')))
          => resets' = resets + 1]_vars
  /\ [][(stats_ret'.resets = resets' /\ seen_cards' = {}) =>
          (stats_ret'.total_cards = 0 /\ stats_ret'.total_sources = 0)]_vars

\* a scan had inserted rows and written its position when the reset ran on
\* the two non-empty tables; stats_cmd then read zero
C11_Witness ==
  /\ resets = 1
  /\ pc[1] = "done"
  /\ io[1].cp_writes = 1
  /\ ever # {}
  /\ seen_cards = {}
  /\ last_scraped = {}
  /\ stats_ret = [total_cards |-> 0, total_sources |-> 0, resets |-> 1]

\* the limit a command carries is a number: an optional sign, then digits
LimitIsNumber(argv) ==
  LET t == argv[2]
      b == IF t # <<>> /\ t[1] \in {"+", "-"} THEN SubSeq(t, 2, Len(t)) ELSE t
  IN  b # <<>> /\ \A i \in 1..Len(b) : b[i] \in Digits

\* a command whose limit is no number, or is above the ceiling of its sender
BadLimit(c) ==
  /\ Len(c.argv) >= 2
  /\ \/ ~LimitIsNumber(c.argv)
     \/ int(c.argv[2]).value
          > (IF c.user_id \in ADMIN_IDS THEN ADMIN_LIMIT ELSE DEFAULT_LIMIT)

\* C12: a command whose limit is not a number or is above the ceiling of its
\* sender is answered without a scan: no source is resolved, no message is
\* fetched, no store function is called, and the step that handles it leaves
\* seen_cards and last_scraped as they were.
C12_ValidationBeforeIo ==
  [][\A s \in Scans :
       /\ BadLimit(cmd'[s]) =>
            /\ pc'[s] = "done"
            /\ how'[s] \in {"invalid_limit", "limit_exceeded"}
            /\ chat'[s] = NoChat
            /\ delivered'[s] = <<>>
            /\ messages_found'[s] = <<>>
            /\ io'[s] = NoIo
       /\ (cmd'[s] # cmd[s] /\ BadLimit(cmd'[s])) =>
            /\ seen_cards' = seen_cards
            /\ last_scraped' = last_scraped]_vars

\* with rows in both tables, an admin's command with a limit above the
\* ceiling has been rejected
C12_Witness ==
  /\ cmd[1].user_id \in ADMIN_IDS
  /\ Len(cmd[1].argv) >= 2
  /\ cmd[1].argv[2] = <<"9">>
  /\ how[1] = "limit_exceeded"
  /\ seen_cards # {}
  /\ last_scraped # {}

\* the card numbers of the records a message holds
CardsIn(message) ==
  LET matched_strings == FindAllOf(TextOf(message))
  IN  {DigitRunsOf(matched_strings[i])[1] :
         i \in {j \in 1..Len(matched_strings) :
                  Len(DigitRunsOf(matched_strings[j])) = FieldCount}}

\* C13: with no filter used and no reset, whenever a scan has ended and the
\* position stored for its channel is P, every record held by a message of
\* that channel with id at most P has its hash in seen_cards.
C13_NoContentLostBehindCheckpoint ==
  (~filtered /\ resets = 0) =>
    \A s \in Scans :
      (pc[s] = "done" /\ how[s] \in {"exhausted", "limit", "error"}) =>
        LET P == StoredPosition(chat[s].id)
        IN  P # NoneVal =>
              \A m \in Upstream(chat[s].id) :
                m.id <= P =>
                  \A c \in CardsIn(m) : HashExists(seen_cards, Sha256Of(c))

C15_CheckpointWriteDiscipline ==
  [][/\ \A s \in Scans :
          /\ io'[s].cp_writes <= 1
          /\ io'[s].cp_writes = 1 =>
               /\ io'[s].consumed # {}
               /\ \/ last_msg_id'[s] = NoneVal
                  \/ MaxOf(io'[s].consumed) > last_msg_id'[s]
     /\ last_scraped' # last_scraped =>
          \E s \in Scans :
            /\ pc[s] = "fetch" /\ pc'[s] = "done"
            /\ io'[s].cp_writes = io[s].cp_writes + 1
            /\ \A r \in last_scraped' \ last_scraped :
                 r.channel_id = chat[s].id
            /\ \A r \in last_scraped \ last_scraped' :
                 r.channel_id = chat[s].id]_vars

\* the second scan, of another channel than the first, wrote its position
\* once; the row of the first channel is still there
C15_Witness ==
  /\ pc[1] = "done"
  /\ started = 2
  /\ io[1].cp_writes = 1
  /\ Cardinality(last_scraped) = 2
  /\ \E r \in last_scraped :
       r.channel_id # chat[1].id /\ r.last_msg_id > 0

\* C16 as stated: with two scans overlapping, no step lowers or removes the
\* position stored for a channel.
C16_ConcurrentCheckpointNeverDecreases ==
  [][\A ch \in ChannelIds :
       StoredPosition(ch) # NoneVal =>
         /\ get_last_msg_id(last_scraped', ch) # NoneVal
         /\ StoredPosition(ch) <= get_last_msg_id(last_scraped', ch)]_vars

\* C16 amended: with two scans overlapping, every step that changes the
\* position stored for a channel is the end of a scan of that channel, and
\* the position it stores is above the one that scan loaded (or it loaded
\* none); the stored position is lowered only by a scan that had loaded a
\* position below the stored one (the last writer wins).
C16_WritesAboveLoadedPosition ==
  [][\A ch \in ChannelIds :
       get_last_msg_id(last_scraped', ch) # StoredPosition(ch) =>
         \E s \in Scans :
           /\ pc[s] = "fetch" /\ pc'[s] = "done"
           /\ chat[s].id = ch
           /\ get_last_msg_id(last_scraped', ch) # NoneVal
           /\ \/ last_msg_id[s] = NoneVal
              \/ get_last_msg_id(last_scraped', ch) > last_msg_id[s]
           /\ get_last_msg_id(last_scraped', ch) < StoredPosition(ch) =>
                \/ last_msg_id[s] = NoneVal
                \/ last_msg_id[s] < StoredPosition(ch)]_vars

\* two scans of one channel overlapped, both wrote, and the position stored
\* at the end is below the one the other scan had stored
C16_Witness ==
  /\ pc[1] = "done" /\ pc[2] = "done"
  /\ chat[1].id = chat[2].id
  /\ chat[1].id \in ChannelIds
  /\ io[1].cp_writes = 1 /\ io[2].cp_writes = 1
  /\ last_msg_id[1] = NoneVal /\ last_msg_id[2] = NoneVal
  /\ StoredPosition(chat[1].id) = newest[2]
  /\ newest[2] < newest[1]

\* C17: in a scan that loaded the position P, every message that reaches
\* extraction, every message a collected record comes from and every message
\* a row of seen_cards comes from has an id above P.
C17_IncrementalSkip ==
  \A s \in Scans :
    last_msg_id[s] # NoneVal =>
      /\ \A id \in io[s].extracted : id > last_msg_id[s]
      /\ \A c \in io[s].contrib : c[1] > last_msg_id[s]
      /\ \A r \in io[s].stored_from : r[1] > last_msg_id[s]

\* a scan of Beta without filter that loaded position 6 was yielded message
\* 6, whose card D an earlier filtered scan had left out of seen_cards: the
\* message is skipped, D is neither returned nor stored
C17_Witness ==
  /\ pc[1] = "done"
  /\ chat[1].id = 2
  /\ last_msg_id[1] = 6
  /\ args[1].start_number = <<>> /\ args[1].bank_name = <<>>
  /\ 6 \in io[1].consumed
  /\ io[1].extracted = {}
  /\ ret[1][1] = <<>>
  /\ ~HashExists(seen_cards, Sha256Of(CardD))

\* C18: with no reset, whenever no scan is running, the hashes in seen_cards
\* are exactly the hashes of the card numbers of the records appended to the
\* results the scans returned.
C18_EmissionMatchesRegistration ==
  (resets = 0 /\ \A s \in Scans : pc[s] \in {"idle", "done"}) =>
    {r.card_hash : r \in seen_cards} = {Sha256Of(c) : c \in DOMAIN emitted}

\* the message has no text, or a label filter is given and the text does not
\* hold the label, letter case aside
LeftOut(message, bank_name) ==
  \/ TextOf(message) = <<>>
  \/ /\ bank_name # <<>>
     /\ ~Contains(LowerOf(TextOf(message)), Lower(bank_name))

\* C19: for every message the loop body of a scan took up: if the message
\* has no text or fails the label filter, it does not reach extraction and
\* no collected record and no row of seen_cards comes from it; a record of
\* it whose card number fails the prefix filter is neither collected nor
\* stored from it; and its id is not above the newest id of the scan, nor
\* above the stored position once the scan has ended.
C19_FilteredContentUntouched ==
  \A s \in Scans : \A id \in io[s].consumed :
    LET m == MessageOf(chat[s].id, id)
    IN  /\ LeftOut(m, args[s].bank_name) =>
             /\ id \notin io[s].extracted
             /\ \A c \in io[s].contrib : c[1] # id
             /\ \A r \in io[s].stored_from : r[1] # id
        /\ args[s].start_number # <<>> =>
             \A c \in CardsIn(m) :
               ~StartsWith(c, Prefix(args[s].start_number, BinLen)) =>
                 /\ <<id, c>> \notin io[s].contrib
                 /\ <<id, Sha256Of(c)>> \notin io[s].stored_from
        /\ newest[s] >= id
        /\ pc[s] = "done" => StoredPosition(chat[s].id) >= id

\* a scan of Beta with the label filter VISA took up message 6, which holds
\* card D under another label: D is not stored, position 6 is, and card A
\* of a message with the label is returned
C19_Witness ==
  /\ pc[1] = "done"
  /\ chat[1].id = 2
  /\ args[1].bank_name # <<>>
  /\ 6 \in io[1].consumed
  /\ 6 \notin io[1].extracted
  /\ ~HashExists(seen_cards, Sha256Of(CardD))
  /\ Occurrences(ret[1][1], CardA) = 1
  /\ StoredPosition(2) = 6

====
